---- MODULE Spec2Model ----
(***************************************************************************)
(* The hotel-reservation batch pipeline: the three stage drivers           *)
(* (DataIngestion.run, DataProcessor.process, ModelTraining.run), the      *)
(* files they exchange on disk, and the errors they raise.                 *)
(*                                                                         *)
(* A table (DataFrame) is [cols, index, rows]: the column names in order,  *)
(* the index labels, and one cell sequence per row aligned with cols.      *)
(* A CSV file is [exists, header, lines].  Numeric cells are integers;     *)
(* the result of log1p is held in thousandths (Log1p).                     *)
(***************************************************************************)
EXTENDS Integers, Sequences, FiniteSets, TLC

\* ------------------------------------------------------------------ bounds
\* Largest number of booking records of the raw table in the bucket.
MaxRows == 4
\* Largest number of stage-driver invocations by the operator.
MaxRuns == 3

\* --------------------------------------------------------------- sequences
Range(s) == {s[i] : i \in DOMAIN s}

RemoveAt(s, p) == SubSeq(s, 1, p - 1) \o SubSeq(s, p + 1, Len(s))

\* The subsequence of s at the positions in S, in order.
PickIdx(s, S) ==
    LET F[i \in 0..Len(s)] ==
            IF i = 0 THEN <<>>
            ELSE IF i \in S THEN Append(F[i - 1], s[i]) ELSE F[i - 1]
    IN  F[Len(s)]

SumSeq(s) ==
    LET F[i \in 0..Len(s)] == IF i = 0 THEN 0 ELSE F[i - 1] + s[i]
    IN  F[Len(s)]

\* t occurs in s as a contiguous run of tokens (substring of a message).
Contains(s, t) ==
    \E i \in 0..(Len(s) - Len(t)) : SubSeq(s, i + 1, i + Len(t)) = t

\* ------------------------------------------------------------ column names
Booking_ID == "Booking_ID"
booking_status == "booking_status"
UnnamedIndex == "Unnamed: 0"
prev_cancellations == "no_of_previous_cancellations"
prev_not_canceled == "no_of_previous_bookings_not_canceled"
lead_time == "lead_time"

\* The booking fields of the raw table (every raw column but the identifier).
BookingFields ==
    <<lead_time, prev_cancellations, prev_not_canceled, booking_status>>

\* config['data_processing']: the configured column lists and threshold.
categorical_columns == <<booking_status>>
numerical_columns == <<lead_time>>
skewness_threshold == 1
\* config['data_ingestion']['train_ratio'], as TrainRatioNum / TrainRatioDen.
TrainRatioNum == 1
TrainRatioDen == 2
\* The values of config['data_processing']['no_of_features'] explored.
NoOfFeaturesChoices == {2, 5}

\* ------------------------------------------------------------------ tables
NoTable == [cols |-> <<>>, index |-> <<>>, rows |-> <<>>]
NoFile == [exists |-> FALSE, header |-> <<>>, lines |-> <<>>]

HasCol(df, c) == c \in Range(df.cols)
ColPos(cols, c) == CHOOSE p \in DOMAIN cols : cols[p] = c /\ \A q \in 1..(p - 1) : cols[q] # c
Column(df, c) == [i \in DOMAIN df.rows |-> df.rows[i][ColPos(df.cols, c)]]

\* df.drop(columns=[c]); the caller checks HasCol first (KeyError otherwise).
DropColumn(df, c) ==
    LET p == ColPos(df.cols, c)
    IN  [df EXCEPT !.cols = RemoveAt(df.cols, p),
                   !.rows = [i \in DOMAIN df.rows |-> RemoveAt(df.rows[i], p)]]

\* df[names]: the projection on the listed columns, in the listed order.
Project(df, names) ==
    [df EXCEPT !.cols = names,
               !.rows = [i \in DOMAIN df.rows |->
                            [j \in DOMAIN names |-> df.rows[i][ColPos(df.cols, names[j])]]]]

\* df.drop_duplicates(): the first of every group of equal rows is kept,
\* with its index label.
DropDuplicates(df) ==
    LET keep == {i \in DOMAIN df.rows : \A j \in 1..(i - 1) : df.rows[j] # df.rows[i]}
    IN  [df EXCEPT !.rows = PickIdx(df.rows, keep), !.index = PickIdx(df.index, keep)]

\* df[c] = f(df[c]) for a whole-column transform given as the new column.
SetColumn(df, c, newcol) ==
    LET p == ColPos(df.cols, c)
    IN  [df EXCEPT !.rows = [i \in DOMAIN df.rows |-> [df.rows[i] EXCEPT ![p] = newcol[i]]]]

\* DataFrame.to_csv(path): with index=True the index labels are written as a
\* first column under an empty header; with index=False they are not written.
ToCsv(df, withIndex) ==
    IF withIndex
    THEN [exists |-> TRUE,
          header |-> <<"">> \o df.cols,
          lines |-> [i \in DOMAIN df.rows |-> <<df.index[i]>> \o df.rows[i]]]
    ELSE [exists |-> TRUE, header |-> df.cols, lines |-> df.rows]

\* pd.read_csv(path): a column with an empty header at position p is named
\* "Unnamed: p" (only position 0 occurs here); the index is 0..n-1.
ReadCsv(file) ==
    [cols |-> [p \in DOMAIN file.header |->
                  IF file.header[p] = "" THEN UnnamedIndex ELSE file.header[p]],
     index |-> [i \in DOMAIN file.lines |-> i - 1],
     rows |-> file.lines]

\* ------------------------------------------------------------ preprocessing
\* The sorted order LabelEncoder gives the category strings of the data.
CategoryOrder == <<"Canceled", "Not_Canceled">>
Rank(v) == ColPos(CategoryOrder, v)

\* LabelEncoder.fit_transform: classes_ are the sorted distinct values of the
\* column, and every value becomes its position (from 0) among them.
LabelEncode(col) ==
    [i \in DOMAIN col |->
        Cardinality({Rank(col[j]) : j \in DOMAIN col} \cap (0..(Rank(col[i]) - 1)))]

\* np.log1p on a count, in thousandths: 1000 * ln(1 + v).
LogTable == <<0, 693, 1099, 1386, 1609, 1792, 1946>>
Log1p(v) == LogTable[v + 1]

\* Series.skew() > threshold.  pandas computes, for n >= 3 values,
\*   n * sqrt(n - 1) / (n - 2) * m3 / m2^1.5
\* with m2, m3 the sums of squared and cubed deviations from the mean (0 when
\* m2 = 0, NaN when n < 3; neither exceeds a threshold).  With S2 and S3 the
\* same sums over n*x - sum(x), the comparison is decided in integers.
SkewExceeds(col, threshold) ==
    LET n == Len(col)
        s1 == SumSeq(col)
        d == [i \in DOMAIN col |-> n * col[i] - s1]
        S2 == SumSeq([i \in DOMAIN col |-> d[i] * d[i]])
        S3 == SumSeq([i \in DOMAIN col |-> d[i] * d[i] * d[i]])
    IN  /\ n >= 3
        /\ S2 > 0
        /\ S3 > 0
        /\ n * n * (n - 1) * S3 * S3 > threshold * threshold * (n - 2) * (n - 2) * S2 * S2 * S2

\* Apply f column by column over the listed columns.
EncodeAll(df, names) ==
    LET F[i \in 0..Len(names)] ==
            IF i = 0 THEN df
            ELSE SetColumn(F[i - 1], names[i], LabelEncode(Column(F[i - 1], names[i])))
    IN  F[Len(names)]

LogColumn(df, c) ==
    LET col == Column(df, c)
    IN  SetColumn(df, c, [i \in DOMAIN col |-> Log1p(col[i])])

LogSkewed(df, names, threshold) ==
    LET F[i \in 0..Len(names)] ==
            IF i = 0 THEN df
            ELSE IF SkewExceeds(Column(df, names[i]), threshold)
                 THEN LogColumn(F[i - 1], names[i])
                 ELSE F[i - 1]
    IN  F[Len(names)]

\* The first column preprocess_data looks up that the table lacks, with the
\* line of the lookup, or <<>> when every lookup succeeds.
MissingIn(df, lookups) ==
    LET bad == {i \in DOMAIN lookups : ~HasCol(df, lookups[i].col)}
    IN  IF bad = {} THEN <<>>
        ELSE <<lookups[CHOOSE i \in bad : \A j \in bad : i <= j]>>

PreprocessLookups ==
    <<[col |-> Booking_ID, line |-> 35]>>
    \o [i \in DOMAIN categorical_columns |-> [col |-> categorical_columns[i], line |-> 46]]
    \o <<[col |-> prev_cancellations, line |-> 57],
         [col |-> prev_not_canceled, line |-> 58]>>
    \o [i \in DOMAIN numerical_columns |-> [col |-> numerical_columns[i], line |-> 61]]

\* The table preprocess_data returns when no lookup fails.
preprocess_data(df) ==
    LET dropped == DropColumn(df, Booking_ID)
        deduped == DropDuplicates(dropped)
        encoded == EncodeAll(deduped, categorical_columns)
        logged == LogColumn(LogColumn(encoded, prev_cancellations), prev_not_canceled)
    IN  LogSkewed(logged, numerical_columns, skewness_threshold)

\* ---------------------------------------------------------------- balancing
\* SMOTE() defaults: k_neighbors.
k_neighbors == 5

Classes(df) == Range(Column(df, booking_status))
ClassCount(df, c) ==
    Cardinality({i \in DOMAIN df.rows : Column(df, booking_status)[i] = c})
MajorityCount(df) ==
    CHOOSE m \in {ClassCount(df, c) : c \in Classes(df)} :
        \A c \in Classes(df) : ClassCount(df, c) <= m

\* The classes that get synthetic rows, one entry per row to generate.
SmoteNeed(df) ==
    LET F[n \in 0..Len(CategoryOrder)] ==
            IF n = 0 THEN <<>>
            ELSE IF (n - 1) \in Classes(df)
                 THEN F[n - 1] \o [i \in 1..(MajorityCount(df) - ClassCount(df, n - 1)) |-> n - 1]
                 ELSE F[n - 1]
    IN  F[Len(CategoryOrder)]

\* fit_resample raises ValueError when y has a single class, and when a class
\* to be oversampled has no more than k_neighbors rows to interpolate between.
SmoteFails(df) ==
    \/ Cardinality(Classes(df)) < 2
    \/ \E c \in Classes(df) :
          /\ ClassCount(df, c) < MajorityCount(df)
          /\ ClassCount(df, c) <= k_neighbors

\* The base row of every synthetic row: a row of the class it is generated for.
SmotePicks(df) ==
    {p \in [DOMAIN SmoteNeed(df) -> DOMAIN df.rows] :
        \A i \in DOMAIN p : Column(df, booking_status)[p[i]] = SmoteNeed(df)[i]}

\* The table balanced_data returns: the feature columns, then the label; the
\* input rows followed by the synthetic rows; a fresh 0..n-1 index.
balanced_data(df, picks) ==
    LET X == DropColumn(df, booking_status)
        y == Column(df, booking_status)
        rows == [i \in 1..(Len(df.rows) + Len(picks)) |->
                    IF i <= Len(df.rows)
                    THEN Append(X.rows[i], y[i])
                    ELSE Append(X.rows[picks[i - Len(df.rows)]], y[picks[i - Len(df.rows)]])]
    IN  [cols |-> Append(X.cols, booking_status),
         index |-> [i \in DOMAIN rows |-> i - 1],
         rows |-> rows]

\* --------------------------------------------------------- feature selection
\* Every order of the names in s.
Rankings(s) ==
    {p \in [DOMAIN s -> Range(s)] : \A i, j \in DOMAIN s : i # j => p[i] # p[j]}

\* Series.head(k): the first k entries, all of them when there are fewer.
FirstK(s, k) == SubSeq(s, 1, IF k < Len(s) THEN k ELSE Len(s))

\* feature_importance_df['Feature'].head(num_features_to_select): the first k
\* names of the importance-descending ranking (all of them when k is larger).
top_10_features(ranking, k) == FirstK(ranking, k)

\* The table select_feature returns for a given importance ranking.
select_feature(df, ranking, k) ==
    Project(df, top_10_features(ranking, k) \o <<booking_status>>)

\* ------------------------------------------------------------------- errors
IngestionFile == "src/data_ingestion.py"
ProcessingFile == "src/data_preprocessing.py"
TrainingFile == "src/model_training.py"
LibraryFile == "site-packages"

Frame(file, line) == [file |-> file, line |-> line]

\* An exception is [type, text, tb, context]: str() as a token sequence, the
\* traceback from the frame that sees it down to the frame that raised it,
\* and the exception being handled when it was raised (none: <<>>).
\* An exception a library raises under the call at `line` of `file`.
LibraryError(type, text, file, line) ==
    [type |-> type, text |-> text,
     tb |-> <<Frame(file, line), Frame(LibraryFile, 0)>>, context |-> <<>>]

\* An exception leaving a method, as the caller's frame at `line` sees it.
Called(e, file, line) == [e EXCEPT !.tb = <<Frame(file, line)>> \o @]

\* CustomException.get_detailed_error_message: sys.exc_info() is the
\* exception being handled; its traceback starts at the handling frame.
get_detailed_error_message(error_message, handled) ==
    <<"Error in ", handled.tb[1].file, " at line ", ToString(handled.tb[1].line), ": ">>
    \o error_message

\* raise CustomException(error_message, e) at `line` of `file`, in the
\* except block handling e.
CustomException(error_message, e, file, line) ==
    [type |-> "CustomException",
     text |-> get_detailed_error_message(error_message, e),
     tb |-> <<Frame(file, line)>>,
     context |-> <<e>>]

\* The failure an error was first raised for.
\* The failure an error was first raised for (errors are wrapped at most
\* twice: by the stage method and by its driver).
RootCause(e) ==
    IF e.context = <<>> THEN e
    ELSE IF e.context[1].context = <<>> THEN e.context[1]
    ELSE e.context[1].context[1]

\* ------------------------------------------------------------------- state
VARIABLES
    bucket,      \* the object in the remote bucket: the raw table as a CSV file
    shuffle,     \* train_test_split(random_state=42): the positions it puts in test
    no_of_features, \* config['data_processing']['no_of_features']
    forest,      \* RandomForestClassifier(random_state=42): the rankings it has
                 \* given, by table (the same table is ranked the same way again)
    dirs,        \* the directories that exist
    files,       \* the CSV files on disk, by path
    model_file,  \* the file at MODEL_OUTPUT_PATH
    tracker,     \* the experiment tracker's record of the active run
    runs,        \* stage-driver invocations so far
    stage,       \* the driver running, or that ran last
    pc,          \* the next statement of the running driver ("idle": none runs)
    steps,       \* the calls the current invocation has made, with their outcome
    outcome,     \* how the invocation ended: "returned" or "raised"
    error,       \* the CustomException the invocation's failure produced
    train_df,    \* DataProcessor.process: train_df
    test_df,     \* DataProcessor.process: test_df
    ranking,     \* select_feature: feature_importance_df, importance-descending
    loaded,      \* ModelTraining.run: X_train, y_train, X_test, y_test
    best_lgbm_model, \* ModelTraining.run: the fitted model
    metrics      \* ModelTraining.run: the metrics record

vars == <<bucket, shuffle, no_of_features, forest, dirs, files, model_file, tracker, runs,
          stage, pc, steps, outcome, error, train_df, test_df, ranking, loaded,
          best_lgbm_model, metrics>>

env == <<bucket, shuffle, no_of_features>>
processing_locals == <<train_df, test_df, ranking>>
training_locals == <<loaded, best_lgbm_model, metrics>>

\* paths_config: the directories and files of the pipeline.
RAW_DIR == "artifacts/raw"
PROCESSED_DIR == "artifacts/processed"
MODEL_DIR == "artifacts/models"

NoModel == [state |-> "absent", features |-> <<>>, run |-> 0]

\* ------------------------------------------------------------------ inputs
\* The bookings a raw table is made of: lead_time, the two cancellation
\* history counters, booking_status.
Bookings ==
    <<  <<1, 0, 0, "Canceled">>,
        <<3, 0, 1, "Not_Canceled">>,
        <<2, 1, 0, "Canceled">>  >>

\* The raw tables: 1..MaxRows records, each a booking under its own
\* identifier.  Records are listed booking by booking (the split below takes
\* every subset, so other orders add no case).  withId = FALSE is an object
\* uploaded without the identifier column.
RawTables ==
    {[exists |-> TRUE,
      header |-> IF withId THEN <<Booking_ID>> \o BookingFields ELSE BookingFields,
      lines |-> [i \in DOMAIN t |->
                    IF withId THEN <<"INN" \o ToString(i)>> \o Bookings[t[i]]
                    ELSE Bookings[t[i]]]] :
        t \in {u \in UNION {[1..n -> DOMAIN Bookings] : n \in 1..MaxRows} :
                  \A i \in 1..(Len(u) - 1) : u[i] <= u[i + 1]},
        withId \in BOOLEAN}

\* train_test_split: n_test = ceil(test_size * n) with test_size = 1 - ratio.
NTest(n) ==
    ((TrainRatioDen - TrainRatioNum) * n + TrainRatioDen - 1) \div TrainRatioDen

Init ==
    /\ bucket \in RawTables
    /\ shuffle \in {S \in SUBSET (1..Len(bucket.lines)) :
                       Cardinality(S) = NTest(Len(bucket.lines))}
    /\ no_of_features \in NoOfFeaturesChoices
    /\ forest = {}
    /\ dirs = {}
    /\ files = [raw |-> NoFile, train |-> NoFile, test |-> NoFile,
                processed_train |-> NoFile, processed_test |-> NoFile]
    /\ model_file = NoModel
    /\ tracker = [active |-> FALSE, logged |-> <<>>, status |-> "none"]
    /\ runs = 0
    /\ stage = "none"
    /\ pc = "idle"
    /\ steps = <<>>
    /\ outcome = "none"
    /\ error = <<>>
    /\ train_df = NoTable
    /\ test_df = NoTable
    /\ ranking = <<>>
    /\ loaded = <<>>
    /\ best_lgbm_model = NoModel
    /\ metrics = <<>>

\* ------------------------------------------------------------ driver steps
Step(op, on, ok) == [op |-> op, on |-> on, ok |-> ok]

\* The driver goes on to its next statement.
Proceed(op, on, next) ==
    /\ steps' = Append(steps, Step(op, on, TRUE))
    /\ pc' = next
    /\ UNCHANGED <<outcome, error>>

\* The invocation is over: it returned, or raised e to its caller.
Ends(how, e) ==
    /\ pc' = "idle"
    /\ outcome' = how
    /\ error' = e

\* A driver is started by the operator when none is running, in a new
\* process: nothing is left of the previous driver's variables.
Starts(driver, first) ==
    /\ pc = "idle"
    /\ runs < MaxRuns
    /\ runs' = runs + 1
    /\ stage' = driver
    /\ pc' = first
    /\ steps' = <<>>
    /\ outcome' = "running"
    /\ error' = <<>>
    /\ train_df' = NoTable
    /\ test_df' = NoTable
    /\ ranking' = <<>>
    /\ loaded' = <<>>
    /\ best_lgbm_model' = NoModel
    /\ metrics' = <<>>

\* ---------------------------------------------------------------- ingestion
\* DataIngestion.__init__ and the start of run.
StartIngestion ==
    /\ Starts("ingestion", "download_csv_from_gcp")
    /\ dirs' = dirs \cup {RAW_DIR}
    /\ UNCHANGED <<env, forest, files, model_file, tracker>>

\* A run that logs the error of a step and goes on to split_data.
DataIngestion_run_except_goes_on(failed_step) == "split_data"

\* DataIngestion.run, except CustomException: the error is logged; after the
\* finally block run returns.  The statement that follows a failed step.
DataIngestion_run_except(failed_step) == "idle"

\* A step of DataIngestion.run failed with e (as the frame of run sees it).
IngestionFails(op, e) ==
    /\ steps' = Append(steps, Step(op, "", FALSE))
    /\ LET next == DataIngestion_run_except(op)
       IN  IF next = "idle"
           THEN Ends("returned", <<e>>)
           ELSE pc' = next /\ UNCHANGED <<outcome, error>>

download_csv_from_gcp ==
    /\ pc = "download_csv_from_gcp"
    /\ \/ /\ files' = [files EXCEPT !.raw = bucket]
          /\ Proceed("download_csv_from_gcp", "", "split_data")
       \/ \* the storage client cannot reach the bucket
          /\ LET e == LibraryError("GoogleAPIError", <<"bucket unreachable">>,
                                   IngestionFile, 28)
             IN  IngestionFails("download_csv_from_gcp",
                     Called(CustomException(
                                <<"Failed to download csv file: ">> \o e.text \o <<" ">>,
                                e, IngestionFile, 38),
                            IngestionFile, 64))
          /\ UNCHANGED files
    /\ UNCHANGED <<env, forest, dirs, model_file, tracker, runs, stage,
                   processing_locals, training_locals>>

\* The rows of df at the positions in S, with their index labels, in table
\* order (the order the shuffle gives a part is not kept: the steps that
\* follow treat a table's rows alike).
Take(df, S) ==
    [df EXCEPT !.index = PickIdx(df.index, S), !.rows = PickIdx(df.rows, S)]

split_data ==
    /\ pc = "split_data"
    /\ LET data == ReadCsv(files.raw)
           n == Len(data.rows)
       IN  IF ~files.raw.exists
           THEN /\ IngestionFails("split_data",
                       Called(CustomException(
                                  <<"Failed to split the data into train and test sets">>,
                                  LibraryError("FileNotFoundError", <<"raw.csv">>,
                                               IngestionFile, 44),
                                  IngestionFile, 56),
                              IngestionFile, 65))
                /\ UNCHANGED files
           ELSE IF n - NTest(n) = 0
           THEN /\ IngestionFails("split_data",
                       Called(CustomException(
                                  <<"Failed to split the data into train and test sets">>,
                                  LibraryError("ValueError",
                                               <<"the resulting train set will be empty">>,
                                               IngestionFile, 46),
                                  IngestionFile, 56),
                              IngestionFile, 65))
                /\ UNCHANGED files
           ELSE /\ files' = [files EXCEPT
                                !.train = ToCsv(Take(data, (1..n) \ shuffle), TRUE),
                                !.test = ToCsv(Take(data, shuffle), TRUE)]
                /\ steps' = Append(steps, Step("split_data", "", TRUE))
                /\ Ends("returned", <<>>)
    /\ UNCHANGED <<env, forest, dirs, model_file, tracker, runs, stage,
                   processing_locals, training_locals>>

\* --------------------------------------------------------------- processing
\* DataProcessor.__init__ and the start of process.
StartProcessing ==
    /\ Starts("processing", "load_train")
    /\ dirs' = dirs \cup {PROCESSED_DIR}
    /\ UNCHANGED <<env, forest, files, model_file, tracker>>

\* DataProcessor.process, except Exception: the error is wrapped and raised.
\* The statement that follows a failed step.
DataProcessor_process_except(failed_step) == "idle"

\* A step of process failed with e (as the frame of process sees it).
ProcessingFails(op, on, e) ==
    /\ steps' = Append(steps, Step(op, on, FALSE))
    /\ LET next == DataProcessor_process_except(op)
       IN  IF next = "idle"
           THEN Ends("raised",
                     <<CustomException(<<"Failed to process the data">>,
                                       e, ProcessingFile, 153)>>)
           ELSE pc' = next /\ UNCHANGED <<outcome, error>>

\* utils.common_functions.load_data(path): the table read from the CSV file.
load_data(file) == ReadCsv(file)

LoadStep(on, file, line, next) ==
    IF file.exists
    THEN /\ Proceed("load_data", on, next)
         /\ IF on = "train"
            THEN train_df' = load_data(file) /\ UNCHANGED test_df
            ELSE test_df' = load_data(file) /\ UNCHANGED train_df
    ELSE /\ ProcessingFails("load_data", on,
                LibraryError("FileNotFoundError", <<on>>, ProcessingFile, line))
         /\ UNCHANGED <<train_df, test_df>>

load_train ==
    /\ pc = "load_train"
    /\ LoadStep("train", files.train, 134, "load_test")
    /\ UNCHANGED <<env, forest, dirs, files, model_file, tracker, runs, stage, ranking,
                   training_locals>>

load_test ==
    /\ pc = "load_test"
    /\ LoadStep("test", files.test, 135, "preprocess_train")
    /\ UNCHANGED <<env, forest, dirs, files, model_file, tracker, runs, stage, ranking,
                   training_locals>>

\* self.preprocess_data(df) called at `line` of process.
PreprocessStep(on, df, line, next) ==
    LET miss == MissingIn(df, PreprocessLookups)
    IN  IF miss = <<>>
        THEN /\ Proceed("preprocess_data", on, next)
             /\ IF on = "train"
                THEN train_df' = preprocess_data(df) /\ UNCHANGED test_df
                ELSE test_df' = preprocess_data(df) /\ UNCHANGED train_df
        ELSE /\ ProcessingFails("preprocess_data", on,
                    Called(CustomException(<<"Failed to preprocess the data">>,
                               LibraryError("KeyError", <<miss[1].col>>,
                                            ProcessingFile, miss[1].line),
                               ProcessingFile, 70),
                           ProcessingFile, line))
             /\ UNCHANGED <<train_df, test_df>>

preprocess_train ==
    /\ pc = "preprocess_train"
    /\ PreprocessStep("train", train_df, 137, "preprocess_test")
    /\ UNCHANGED <<env, forest, dirs, files, model_file, tracker, runs, stage, ranking,
                   training_locals>>

preprocess_test ==
    /\ pc = "preprocess_test"
    /\ PreprocessStep("test", test_df, 138, "balance_train")
    /\ UNCHANGED <<env, forest, dirs, files, model_file, tracker, runs, stage, ranking,
                   training_locals>>

\* self.balanced_data(df) called at `line` of process.
BalanceStep(on, df, line, next) ==
    IF ~HasCol(df, booking_status)
    THEN /\ ProcessingFails("balanced_data", on,
                Called(CustomException(<<"Failed to balance the data">>,
                           LibraryError("KeyError", <<booking_status>>, ProcessingFile, 76),
                           ProcessingFile, 90),
                       ProcessingFile, line))
         /\ UNCHANGED <<train_df, test_df>>
    ELSE IF SmoteFails(df)
    THEN /\ ProcessingFails("balanced_data", on,
                Called(CustomException(<<"Failed to balance the data">>,
                           LibraryError("ValueError", <<"SMOTE cannot resample">>,
                                        ProcessingFile, 80),
                           ProcessingFile, 90),
                       ProcessingFile, line))
         /\ UNCHANGED <<train_df, test_df>>
    ELSE /\ Proceed("balanced_data", on, next)
         /\ \E picks \in SmotePicks(df) :
               IF on = "train"
               THEN train_df' = balanced_data(df, picks) /\ UNCHANGED test_df
               ELSE test_df' = balanced_data(df, picks) /\ UNCHANGED train_df

balance_train ==
    /\ pc = "balance_train"
    /\ BalanceStep("train", train_df, 140, "balance_test")
    /\ UNCHANGED <<env, forest, dirs, files, model_file, tracker, runs, stage, ranking,
                   training_locals>>

balance_test ==
    /\ pc = "balance_test"
    /\ BalanceStep("test", test_df, 141, "select_feature")
    /\ UNCHANGED <<env, forest, dirs, files, model_file, tracker, runs, stage, ranking,
                   training_locals>>

\* train_df = self.select_feature(train_df): the forest is fitted on every
\* feature column, then the first no_of_features names of the ranking are kept.
\* The forest is seeded: any ranking may come out for a table, and the same
\* one comes out whenever that table is ranked again.
select_train ==
    /\ pc = "select_feature"
    /\ IF ~HasCol(train_df, booking_status)
       THEN /\ ProcessingFails("select_feature", "train",
                   Called(CustomException(<<"Failed to select features">>,
                              LibraryError("KeyError", <<booking_status>>, ProcessingFile, 95),
                              ProcessingFile, 118),
                          ProcessingFile, 143))
            /\ UNCHANGED <<train_df, ranking, forest>>
       ELSE /\ Proceed("select_feature", "train", "align_test")
            /\ \E r \in Rankings(DropColumn(train_df, booking_status).cols) :
                  /\ \A f \in forest : f.table = train_df => f.ranking = r
                  /\ forest' = forest \cup {[table |-> train_df, ranking |-> r]}
                  /\ ranking' = r
                  /\ train_df' = select_feature(train_df, r, no_of_features)
    /\ UNCHANGED <<env, dirs, files, model_file, tracker, runs, stage, test_df,
                   training_locals>>

\* A process that leaves the test table with the columns it came with.
aligned_test_keeps_own_columns(train, test) == test

\* test_df = train_df[train_df.columns]
aligned_test(train, test) == Project(train, train.cols)

align_test ==
    /\ pc = "align_test"
    /\ test_df' = aligned_test(train_df, test_df)
    /\ Proceed("align_columns", "test", "save_train")
    /\ UNCHANGED <<env, forest, dirs, files, model_file, tracker, runs, stage, train_df, ranking,
                   training_locals>>

\* self.save_data(df, path) called at `line` of process: to_csv(index=False).
SaveStep(on, df, line, next) ==
    \/ /\ files' = IF on = "train"
                   THEN [files EXCEPT !.processed_train = ToCsv(df, FALSE)]
                   ELSE [files EXCEPT !.processed_test = ToCsv(df, FALSE)]
       /\ steps' = Append(steps, Step("save_data", on, TRUE))
       /\ IF next = "idle"
          THEN Ends("returned", <<>>)
          ELSE pc' = next /\ UNCHANGED <<outcome, error>>
    \/ \* the file cannot be written
       /\ ProcessingFails("save_data", on,
              Called(CustomException(<<"Failed to save the processed data">>,
                         LibraryError("OSError", <<"cannot write">>, ProcessingFile, 124),
                         ProcessingFile, 128),
                     ProcessingFile, line))
       /\ UNCHANGED files

save_train ==
    /\ pc = "save_train"
    /\ SaveStep("train", train_df, 146, "save_test")
    /\ UNCHANGED <<env, forest, dirs, model_file, tracker, runs, stage, processing_locals,
                   training_locals>>

save_test ==
    /\ pc = "save_test"
    /\ SaveStep("test", test_df, 147, "idle")
    /\ UNCHANGED <<env, forest, dirs, model_file, tracker, runs, stage, processing_locals,
                   training_locals>>

\* ----------------------------------------------------------------- training
\* ModelTraining.__init__ and the start of run.
StartTraining ==
    /\ Starts("training", "start_run")
    /\ UNCHANGED <<env, forest, dirs, files, model_file, tracker>>

\* ModelTraining.run, except Exception: the error is wrapped and raised.
\* The statement that follows a failed step.
ModelTraining_run_except(failed_step) == "idle"

\* Leaving `with mlflow.start_run()` on an exception ends the tracker's run
\* as failed.
TrackerAfterFailure ==
    IF tracker.active THEN [tracker EXCEPT !.active = FALSE, !.status = "FAILED"]
    ELSE tracker

\* A step of run failed with e (as the frame of run sees it).
TrainingFails(op, on, e) ==
    /\ steps' = Append(steps, Step(op, on, FALSE))
    /\ LET next == ModelTraining_run_except(op)
       IN  IF next = "idle"
           THEN /\ Ends("raised",
                        <<CustomException(<<"Failed to train the model">>,
                                          e, TrainingFile, 164)>>)
                /\ tracker' = TrackerAfterFailure
           ELSE pc' = next /\ UNCHANGED <<outcome, error, tracker>>

\* A call to the experiment tracker at `line` of run: it records `item`, or
\* fails because the tracker cannot be reached.
TrackerCall(op, item, line, next) ==
    \/ /\ tracker' = [tracker EXCEPT !.logged = Append(@, item)]
       /\ Proceed(op, item, next)
    \/ TrainingFails(op, item,
           LibraryError("MlflowException", <<"tracker unreachable">>, TrainingFile, line))

\* with mlflow.start_run():
start_run ==
    /\ pc = "start_run"
    /\ \/ /\ tracker' = [active |-> TRUE, logged |-> <<>>, status |-> "RUNNING"]
          /\ Proceed("start_run", "", "log_train")
       \/ TrainingFails("start_run", "",
              LibraryError("MlflowException", <<"tracker unreachable">>, TrainingFile, 136))
    /\ UNCHANGED <<env, forest, dirs, files, model_file, runs, stage, processing_locals,
                   training_locals>>

\* mlflow.log_artifact(path) of a dataset file at `line` of run.
LogDataset(on, file, line, next) ==
    IF file.exists
    THEN TrackerCall("log_artifact", on, line, next)
    ELSE TrainingFails("log_artifact", on,
             LibraryError("FileNotFoundError", <<on>>, TrainingFile, line))

log_train ==
    /\ pc = "log_train"
    /\ LogDataset("train", files.processed_train, 143, "log_test")
    /\ UNCHANGED <<env, forest, dirs, files, model_file, runs, stage, processing_locals,
                   training_locals>>

log_test ==
    /\ pc = "log_test"
    /\ LogDataset("test", files.processed_test, 144, "load_and_split_data")
    /\ UNCHANGED <<env, forest, dirs, files, model_file, runs, stage, processing_locals,
                   training_locals>>

\* The first of the lookups of load_and_split_data that fails, or <<>>.
LoadAndSplitLookups(train, test) ==
    IF ~HasCol(train, UnnamedIndex) THEN <<[col |-> UnnamedIndex, line |-> 41]>>
    ELSE IF ~HasCol(test, UnnamedIndex) THEN <<[col |-> UnnamedIndex, line |-> 42]>>
    ELSE IF ~HasCol(train, booking_status) THEN <<[col |-> booking_status, line |-> 44]>>
    ELSE IF ~HasCol(test, booking_status) THEN <<[col |-> booking_status, line |-> 47]>>
    ELSE <<>>

\* What load_and_split_data returns when every lookup succeeds.
split_features_target(train, test) ==
    LET tr == DropColumn(train, UnnamedIndex)
        te == DropColumn(test, UnnamedIndex)
    IN  [X_train |-> DropColumn(tr, booking_status),
         y_train |-> Column(tr, booking_status),
         X_test |-> DropColumn(te, booking_status),
         y_test |-> Column(te, booking_status)]

load_and_split_data ==
    /\ pc = "load_and_split_data"
    /\ LET missing_file ==
               IF ~files.processed_train.exists THEN <<[name |-> "train", line |-> 35]>>
               ELSE IF ~files.processed_test.exists THEN <<[name |-> "test", line |-> 38]>>
               ELSE <<>>
           train == load_data(files.processed_train)
           test == load_data(files.processed_test)
           miss == LoadAndSplitLookups(train, test)
       IN  IF missing_file # <<>>
           THEN /\ TrainingFails("load_and_split_data", "",
                       Called(CustomException(<<"Failed to load and split the data">>,
                                  LibraryError("FileNotFoundError", <<missing_file[1].name>>,
                                               TrainingFile, missing_file[1].line),
                                  TrainingFile, 58),
                              TrainingFile, 146))
                /\ UNCHANGED loaded
           ELSE IF miss # <<>>
           THEN /\ TrainingFails("load_and_split_data", "",
                       Called(CustomException(<<"Failed to load and split the data">>,
                                  LibraryError("KeyError", <<miss[1].col>>,
                                               TrainingFile, miss[1].line),
                                  TrainingFile, 58),
                              TrainingFile, 146))
                /\ UNCHANGED loaded
           ELSE /\ loaded' = <<split_features_target(train, test)>>
                /\ Proceed("load_and_split_data", "", "train_lgbm")
                /\ UNCHANGED tracker
    /\ UNCHANGED <<env, forest, dirs, files, model_file, runs, stage, processing_locals,
                   best_lgbm_model, metrics>>

\* train_lgbm: the randomized search fits on X_train, or fails.
train_lgbm ==
    /\ pc = "train_lgbm"
    /\ \/ /\ best_lgbm_model' =
                 [state |-> "complete", features |-> loaded[1].X_train.cols, run |-> runs]
          /\ Proceed("train_lgbm", "", "evaluate_model")
          /\ UNCHANGED tracker
       \/ /\ TrainingFails("train_lgbm", "",
                 Called(CustomException(<<"Failed to train the model">>,
                            LibraryError("LightGBMError", <<"fit failed">>, TrainingFile, 79),
                            TrainingFile, 93),
                        TrainingFile, 147))
          /\ UNCHANGED best_lgbm_model
    /\ UNCHANGED <<env, forest, dirs, files, model_file, runs, stage, processing_locals,
                   loaded, metrics>>

\* evaluate_model: predict needs the columns the model was fitted on; the
\* four scores are computed from y_test and the prediction.
evaluate_model ==
    /\ pc = "evaluate_model"
    /\ IF loaded[1].X_test.cols # best_lgbm_model.features
       THEN /\ TrainingFails("evaluate_model", "",
                   Called(CustomException(<<"Failed to evaluate the model">>,
                              LibraryError("ValueError", <<"feature mismatch">>,
                                           TrainingFile, 98),
                              TrainingFile, 119),
                          TrainingFile, 148))
            /\ UNCHANGED metrics
       ELSE /\ metrics' = <<"accuracy", "precision", "recall", "f1_score">>
            /\ Proceed("evaluate_model", "", "save_model")
            /\ UNCHANGED tracker
    /\ UNCHANGED <<env, forest, dirs, files, model_file, runs, stage, processing_locals,
                   loaded, best_lgbm_model>>

\* save_model, first part: os.makedirs(dirname, exist_ok=True), then
\* joblib.dump opens the output path for writing, which empties it.
save_model_open ==
    /\ pc = "save_model"
    /\ dirs' = dirs \cup {MODEL_DIR}
    /\ model_file' = [state |-> "partial", features |-> <<>>, run |-> runs]
    /\ pc' = "save_model_dump"
    /\ UNCHANGED <<env, forest, files, tracker, runs, stage, steps, outcome, error,
                   processing_locals, training_locals>>

\* save_model, second part: the pickle is written through to the end, or the
\* write fails midway and leaves what was written so far.
save_model_dump ==
    /\ pc = "save_model_dump"
    /\ \/ /\ model_file' = best_lgbm_model
          /\ Proceed("save_model", "", "log_model")
          /\ UNCHANGED tracker
       \/ /\ TrainingFails("save_model", "",
                 Called(CustomException(<<"Failed to save the model">>,
                            LibraryError("OSError", <<"No space left on device">>,
                                         TrainingFile, 127),
                            TrainingFile, 132),
                        TrainingFile, 149))
          /\ UNCHANGED model_file
    /\ UNCHANGED <<env, forest, dirs, files, runs, stage, processing_locals, training_locals>>

log_model ==
    /\ pc = "log_model"
    /\ IF model_file.state = "absent"
       THEN TrainingFails("log_artifact", "model",
                LibraryError("FileNotFoundError", <<"model">>, TrainingFile, 152))
       ELSE TrackerCall("log_artifact", "model", 152, "log_params")
    /\ UNCHANGED <<env, forest, dirs, files, model_file, runs, stage, processing_locals,
                   training_locals>>

log_params ==
    /\ pc = "log_params"
    /\ TrackerCall("log_params", "params", 154, "log_metrics")
    /\ UNCHANGED <<env, forest, dirs, files, model_file, runs, stage, processing_locals,
                   training_locals>>

\* mlflow.log_metrics(metrics), then the with block is left: the tracker's
\* run is ended and run returns.
log_metrics ==
    /\ pc = "log_metrics"
    /\ \/ /\ tracker' = [active |-> FALSE, logged |-> Append(tracker.logged, "metrics"),
                         status |-> "FINISHED"]
          /\ steps' = Append(steps, Step("log_metrics", "metrics", TRUE))
          /\ Ends("returned", <<>>)
       \/ TrainingFails("log_metrics", "metrics",
              LibraryError("MlflowException", <<"tracker unreachable">>, TrainingFile, 157))
    /\ UNCHANGED <<env, forest, dirs, files, model_file, runs, stage, processing_locals,
                   training_locals>>

Next ==
    \/ StartIngestion
    \/ download_csv_from_gcp
    \/ split_data
    \/ StartProcessing
    \/ load_train
    \/ load_test
    \/ preprocess_train
    \/ preprocess_test
    \/ balance_train
    \/ balance_test
    \/ select_train
    \/ align_test
    \/ save_train
    \/ save_test
    \/ StartTraining
    \/ start_run
    \/ log_train
    \/ log_test
    \/ load_and_split_data
    \/ train_lgbm
    \/ evaluate_model
    \/ save_model_open
    \/ save_model_dump
    \/ log_model
    \/ log_params
    \/ log_metrics

Spec == Init /\ [][Next]_vars

\* ------------------------------------------------------------------- claims
Failed == \E i \in DOMAIN steps : ~steps[i].ok
ProcessCompleted == stage = "processing" /\ pc = "idle" /\ outcome = "returned"
TrainingEnded == stage = "training" /\ pc = "idle"

\* C1: when process completes, the saved test table is the preprocessed test
\* split restricted to the columns selected on train, and balancing and
\* feature selection were applied to the train table only.
C1_SavedTestIsPreprocessedTestSplit ==
    ProcessCompleted =>
        /\ files.processed_test =
               ToCsv(Project(preprocess_data(load_data(files.test)),
                             files.processed_train.header), FALSE)
        /\ \A i \in DOMAIN steps :
               steps[i].op \in {"balanced_data", "select_feature"} => steps[i].on = "train"

C3_FailFast ==
    /\ \A i \in DOMAIN steps : ~steps[i].ok => i = Len(steps) /\ pc = "idle"
    /\ \A i, j \in DOMAIN steps :
           (steps[i].op = steps[j].op /\ steps[i].on = steps[j].on) => i = j

\* A training run failed after its datasets were logged, and no model was
\* written.
C3_Witness ==
    /\ TrainingEnded
    /\ Len(steps) >= 4
    /\ ~steps[Len(steps)].ok
    /\ steps[Len(steps)].op \in {"load_and_split_data", "train_lgbm"}
    /\ model_file.state = "absent"

\* C4: stage chaining: training loads whatever the processing stage saved,
\* and processing finds every column it looks up in what split_data saved.
C4_StagesChain ==
    /\ stage = "training" =>
           \A i \in DOMAIN steps : steps[i].op = "load_and_split_data" => steps[i].ok
    /\ (stage = "processing" /\ Booking_ID \in Range(bucket.header)) =>
           \A i \in DOMAIN steps : steps[i].op = "preprocess_data" => steps[i].ok

\* No identifier column, and no two rows with the same booking fields.
NoDuplicateBookings(df) ==
    /\ ~HasCol(df, Booking_ID)
    /\ \A i, j \in DOMAIN df.rows :
           i # j => Project(df, BookingFields).rows[i] # Project(df, BookingFields).rows[j]

\* C5: after preprocess_data, and before balancing, a table has no identifier
\* column and no two rows that agree on every booking field.
C5_PreprocessedHasNoDuplicates ==
    /\ pc \in {"preprocess_test", "balance_train"} => NoDuplicateBookings(train_df)
    /\ pc \in {"balance_train", "balance_test"} => NoDuplicateBookings(test_df)

\* C6: with no_of_features above the number of feature columns, select_feature
\* fails before the forest is fitted, and never returns fewer than
\* no_of_features feature columns.
C6_TooManyFeaturesRejected ==
    /\ ~(ranking # <<>> /\ no_of_features > Len(ranking))
    /\ pc = "align_test" => Len(train_df.cols) - 1 >= no_of_features

\* The processed files are there with every column load_and_split_data needs.
Loadable ==
    /\ files.processed_train.exists
    /\ files.processed_test.exists
    /\ LoadAndSplitLookups(load_data(files.processed_train),
                           load_data(files.processed_test)) = <<>>

\* C7: tracker logging is best effort: a training run whose only failure is an
\* unreachable tracker still writes the model and returns normally.
C7_TrackerIsBestEffort ==
    (/\ TrainingEnded
     /\ Failed
     /\ Loadable
     /\ RootCause(error[1]).type = "MlflowException")
    => /\ outcome = "returned"
       /\ model_file.state = "complete"
       /\ model_file.run = runs

\* C8: once save_model is over, however it ended, the model path is absent or
\* holds a complete artifact; the directory exists before anything is written.
C8_NoPartialModelFile ==
    /\ pc = "idle" => model_file.state \in {"absent", "complete"}
    /\ model_file.state # "absent" => MODEL_DIR \in dirs

\* C9: a driver one of whose steps failed ends by raising a CustomException
\* to its caller.
C9_FailuresAreRaised ==
    (pc = "idle" /\ Failed) =>
        /\ outcome = "raised"
        /\ error # <<>>
        /\ error[1].type = "CustomException"

\* C10: the text of a wrapped error names the file and line where the
\* underlying failure surfaced and holds the underlying failure's message.
C10_ErrorTextCarriesOriginAndCause ==
    error # <<>> =>
        LET root == RootCause(error[1])
        IN  /\ Contains(error[1].text,
                        <<root.tb[1].file, " at line ", ToString(root.tb[1].line)>>)
            /\ Contains(error[1].text, root.text)
====
